---- MODULE Spec2Model ----
(***************************************************************************)
(* MarkdownToDocxTool._run of src/tools.py as a state machine.  Text is a  *)
(* sequence of one-character strings, so that prefix tests, regular        *)
(* expression matches, split, strip, replace and join are computed         *)
(* character by character as the Python code computes them.                *)
(***************************************************************************)
EXTENDS Integers, Sequences, FiniteSets, TLC

\* ------------------------------------------------------------------ bounds
MaxInlineLen == 5
MaxTableLen == 4
MaxLines == 4

\* ------------------------------------------------------- string primitives
\* the grave accent character (the lexer of TLA+ rejects it inside a string)
Backtick == "grave"

RECURSIVE Concat(_)
Concat(ss) == IF ss = <<>> THEN <<>> ELSE Head(ss) \o Concat(Tail(ss))

StartsWith(s, p) == Len(s) >= Len(p) /\ SubSeq(s, 1, Len(p)) = p

\* s[a:] of Python, a counted from 0
From(s, a) == SubSeq(s, a + 1, Len(s))

\* the substring p occurs in s at 1-based position k
OccursAt(s, p, k) == k >= 1 /\ k + Len(p) - 1 <= Len(s) /\ SubSeq(s, k, k + Len(p) - 1) = p

Whitespace == {" ", "\t"}

Digits == {"0", "1", "2", "3", "4", "5", "6", "7", "8", "9"}

RECURSIVE LStrip(_)
LStrip(s) == IF s # <<>> /\ Head(s) \in Whitespace THEN LStrip(Tail(s)) ELSE s

RECURSIVE RStrip(_)
RStrip(s) == IF s # <<>> /\ s[Len(s)] \in Whitespace THEN RStrip(SubSeq(s, 1, Len(s) - 1)) ELSE s

Strip(s) == RStrip(LStrip(s))

\* str.split(d) for a one-character separator d: always at least one piece
RECURSIVE Split(_, _)
Split(s, d) ==
    IF \E k \in 1..Len(s) : s[k] = d
    THEN LET k == CHOOSE j \in 1..Len(s) : s[j] = d /\ \A h \in 1..(j - 1) : s[h] # d
         IN <<SubSeq(s, 1, k - 1)>> \o Split(SubSeq(s, k + 1, Len(s)), d)
    ELSE <<s>>

\* d.join(ss)
RECURSIVE Join(_, _)
Join(ss, d) ==
    IF ss = <<>> THEN <<>>
    ELSE IF Len(ss) = 1 THEN ss[1]
    ELSE ss[1] \o d \o Join(Tail(ss), d)

\* str.replace(old, new): every non-overlapping occurrence, left to right
RECURSIVE Replace(_, _, _)
Replace(s, old, new) ==
    IF s = <<>> THEN <<>>
    ELSE IF StartsWith(s, old) THEN new \o Replace(From(s, Len(old)), old, new)
    ELSE <<Head(s)>> \o Replace(Tail(s), old, new)

\* ------------------------------------------------------------ fixed texts
FenceMarker == <<Backtick, Backtick, Backtick>>
ReportTitle == <<"D", "a", "t", "a", " ", "A", "n", "a", "l", "y", "s", "i", "s", " ", "R", "e", "p", "o", "r", "t">>
DefaultPathPrefix == <<"o", "u", "t", "p", "u", "t", "s", "/", "r", "e", "p", "o", "r", "t", "s", "/", "d", "a", "t", "a", "_", "a", "n", "a", "l", "y", "s", "i", "s", "_", "r", "e", "p", "o", "r", "t", "_">>
DocxSuffix == <<".", "d", "o", "c", "x">>
ChartsRel == <<".", ".", "/", "c", "h", "a", "r", "t", "s", "/">>
ChartsOut == <<"o", "u", "t", "p", "u", "t", "s", "/", "c", "h", "a", "r", "t", "s", "/">>
SuccessPrefix == <<"S", "u", "c", "c", "e", "s", "s", "f", "u", "l", "l", "y", " ", "c", "o", "n", "v", "e", "r", "t", "e", "d", " ", "m", "a", "r", "k", "d", "o", "w", "n", " ", "t", "o", " ", "D", "O", "C", "X", ":", " ">>
ErrorPrefix == <<"E", "r", "r", "o", "r", " ", "c", "o", "n", "v", "e", "r", "t", "i", "n", "g", " ", "m", "a", "r", "k", "d", "o", "w", "n", " ", "t", "o", " ", "D", "O", "C", "X", ":", " ">>
PyNone == <<"None">>

\* ------------------------------------------------------ line classification
\* line.startswith('```')
IsFence(line) == StartsWith(line, FenceMarker)

\* the if/elif chain over '# ', '## ', '### ', '#### '; 0 when none applies
HeadingLevel(line) ==
    IF StartsWith(line, <<"#", " ">>) THEN 1
    ELSE IF StartsWith(line, <<"#", "#", " ">>) THEN 2
    ELSE IF StartsWith(line, <<"#", "#", "#", " ">>) THEN 3
    ELSE IF StartsWith(line, <<"#", "#", "#", "#", " ">>) THEN 4
    ELSE 0

\* length of the heading prefix that line[k:] drops
HeadingCut(level) == level + 1

IsBullet(line) == StartsWith(line, <<"-", " ">>) \/ StartsWith(line, <<"*", " ">>)

\* length of the match of ^\d+\.\s at the start of the line, 0 when no match
NumberedPrefix(line) ==
    LET n == IF \E k \in 1..Len(line) : line[k] \notin Digits
             THEN (CHOOSE k \in 1..Len(line) :
                       line[k] \notin Digits /\ \A h \in 1..(k - 1) : line[h] \in Digits) - 1
             ELSE Len(line)
    IN IF n >= 1 /\ Len(line) >= n + 2 /\ line[n + 1] = "." /\ line[n + 2] \in Whitespace
       THEN n + 2 ELSE 0

\* positions k of a "](" that let ^!\[.*\]\(.*\)$ match
ImageSplits(line) ==
    {k \in 3..(Len(line) - 2) : line[k] = "]" /\ line[k + 1] = "("}

IsImage(line) ==
    /\ StartsWith(line, <<"!", "[">>)
    /\ Len(line) >= 5
    /\ line[Len(line)] = ")"
    /\ ImageSplits(line) # {}

\* the greedy first group takes the last "](" of the line
ImageSplit(line) == CHOOSE k \in ImageSplits(line) : \A h \in ImageSplits(line) : h <= k

ImageAlt(line) == SubSeq(line, 3, ImageSplit(line) - 1)

ImagePath(line) == SubSeq(line, ImageSplit(line) + 2, Len(line) - 1)

\* img_path after the '../charts/' rewrite
ResolvePath(img_path) ==
    IF StartsWith(img_path, ChartsRel) THEN Replace(img_path, ChartsRel, ChartsOut)
    ELSE img_path

IsTable(line) == (\E k \in 1..Len(line) : line[k] = "|") /\ StartsWith(Strip(line), <<"|">>)

\* [cell.strip() for cell in line.split('|')[1:-1]]
TableCells(line) ==
    LET pieces == Split(line, "|")
    IN [k \in 1..(Len(pieces) - 2) |-> Strip(pieces[k + 1])]

\* all(c == '-' or c == '---' for c in ''.join(cells).replace('-', ''));
\* c ranges over single characters, so it never equals '---'
IsSeparator(line) ==
    LET rest == Replace(Concat(TableCells(line)), <<"-">>, <<>>)
    IN \A k \in 1..Len(rest) : rest[k] = "-"

IsBlank(line) == Strip(line) = <<>>

\* Classify with the test of code_block moved below the list tests
ClassifyMut(line, code_block) ==
    IF IsFence(line) THEN "fence"
    ELSE IF HeadingLevel(line) > 0 THEN "heading"
    ELSE IF IsBullet(line) THEN "bullet"
    ELSE IF NumberedPrefix(line) > 0 THEN "numbered"
    ELSE IF code_block THEN "code"
    ELSE IF IsImage(line) THEN "image"
    ELSE IF IsTable(line) THEN "table"
    ELSE IF IsBlank(line) THEN "blank"
    ELSE "paragraph"

\* the branch of the loop body that handles the line
Classify(line, code_block) ==
    IF IsFence(line) THEN "fence"
    ELSE IF code_block THEN "code"
    ELSE IF HeadingLevel(line) > 0 THEN "heading"
    ELSE IF IsBullet(line) THEN "bullet"
    ELSE IF NumberedPrefix(line) > 0 THEN "numbered"
    ELSE IF IsImage(line) THEN "image"
    ELSE IF IsTable(line) THEN "table"
    ELSE IF IsBlank(line) THEN "blank"
    ELSE "paragraph"

\* ------------------------------------------------------- inline formatting
BoldDelim == <<"*", "*">>
ItalicDelim == <<"*">>
CodeDelim == <<Backtick>>

\* 1-based positions from which delim(.*?)delim matches, searching from pos
MatchStarts(text, delim, pos) ==
    {s \in pos..Len(text) :
        OccursAt(text, delim, s) /\ \E e \in (s + Len(delim))..Len(text) : OccursAt(text, delim, e)}

\* re.finditer(delim(.*?)delim, text) from pos: leftmost start, earliest close,
\* next search from the end of the match; start/end are Python offsets
RECURSIVE FindIter(_, _, _)
FindIter(text, delim, pos) ==
    IF MatchStarts(text, delim, pos) = {} THEN <<>>
    ELSE LET S == MatchStarts(text, delim, pos)
             s == CHOOSE x \in S : \A y \in S : x <= y
             E == {e \in (s + Len(delim))..Len(text) : OccursAt(text, delim, e)}
             e == CHOOSE x \in E : \A y \in E : x <= y
         IN <<[start |-> s - 1, end |-> e + Len(delim) - 1,
               group |-> SubSeq(text, s + Len(delim), e - 1)]>>
            \o FindIter(text, delim, e + Len(delim))

Tag(format_type, ms) == [k \in 1..Len(ms) |-> [type |-> format_type, m |-> ms[k]]]

\* ItalicKept without the test against the bold matches
ItalicKeptMut(match, bolds) == TRUE

\* the check "it's not part of bold": the italic match starts inside no bold match
ItalicKept(match, bolds) ==
    ~ \E k \in 1..Len(bolds) : bolds[k].start <= match.start /\ match.start < bolds[k].end

RECURSIVE Filter(_, _)
Filter(italics, bolds) ==
    IF italics = <<>> THEN <<>>
    ELSE (IF ItalicKept(Head(italics), bolds) THEN <<Head(italics)>> ELSE <<>>)
         \o Filter(Tail(italics), bolds)

\* list.sort(key=start): stable
RECURSIVE InsertByStart(_, _)
InsertByStart(sorted, x) ==
    IF sorted = <<>> THEN <<x>>
    ELSE IF Head(sorted).m.start <= x.m.start
         THEN <<Head(sorted)>> \o InsertByStart(Tail(sorted), x)
         ELSE <<x>> \o sorted

RECURSIVE SortByStart(_)
SortByStart(ms) ==
    IF ms = <<>> THEN <<>>
    ELSE InsertByStart(SortByStart(SubSeq(ms, 1, Len(ms) - 1)), ms[Len(ms)])

AllMatches(text) ==
    LET bolds == FindIter(text, BoldDelim, 1)
        italics == Filter(FindIter(text, ItalicDelim, 1), bolds)
        codes == FindIter(text, CodeDelim, 1)
    IN SortByStart(Tag("bold", bolds) \o Tag("italic", italics) \o Tag("code", codes))

\* the loop over all_matches: plain text before the match, the styled group,
\* current_pos moved to the end of the match; then the remaining text
RECURSIVE WalkMatches(_, _, _)
WalkMatches(text, ms, current_pos) ==
    IF ms = <<>>
    THEN IF current_pos < Len(text)
         THEN <<[text |-> From(text, current_pos), style |-> "plain"]>>
         ELSE <<>>
    ELSE LET match == Head(ms).m
         IN (IF match.start > current_pos
             THEN <<[text |-> SubSeq(text, current_pos + 1, match.start), style |-> "plain"]>>
             ELSE <<>>)
            \o <<[text |-> match.group, style |-> Head(ms).type]>>
            \o WalkMatches(text, Tail(ms), match.end)

\* the runs of a regular paragraph
Runs(text) ==
    IF AllMatches(text) # <<>> THEN WalkMatches(text, AllMatches(text), 0)
    ELSE <<[text |-> text, style |-> "plain"]>>

\* ------------------------------------------------------------- the document
\* doc.add_heading(text, level)
Heading(text, level) == [kind |-> "heading", level |-> level, text |-> text]

Run(text, style) == [text |-> text, style |-> style]

\* a paragraph element with its style, alignment and runs
Para(style, align, runs) == [kind |-> "paragraph", style |-> style, align |-> align, runs |-> runs]

\* doc.add_paragraph(text, style): the text becomes one run unless it is empty
AddParagraph(text, style) ==
    Para(style, "none", IF text = <<>> THEN <<>> ELSE <<Run(text, "plain")>>)

\* CodeBlockPara joining the buffered lines with nothing between them
CodeBlockParaMut(code_content) ==
    Para("No Spacing", "none", <<Run(Concat(code_content), "mono")>>)

\* the paragraph built when a code block closes
CodeBlockPara(code_content) ==
    Para("No Spacing", "none", <<Run(Join(code_content, <<"\n">>), "mono")>>)

\* p = doc.add_paragraph(); centred; run = p.add_run(), before add_picture
PictureShell == Para("Normal", "center", <<Run(<<>>, "plain")>>)

\* the same paragraph once run.add_picture(img_path) has succeeded
PicturePara(img_path) == Para("Normal", "center", <<Run(img_path, "picture")>>)

CaptionPara(alt_text) == Para("Normal", "center", <<Run(alt_text, "italic")>>)

NotFoundText(alt_text, img_path) ==
    <<"[", "I", "m", "a", "g", "e", ":", " ">> \o alt_text \o <<" ", "-", " ", "F", "i", "l", "e", " ", "n", "o", "t", " ", "f", "o", "u", "n", "d", ":", " ">> \o img_path \o <<"]">>

CouldNotLoadText(alt_text, img_error) ==
    <<"[", "I", "m", "a", "g", "e", ":", " ">> \o alt_text \o <<" ", "-", " ", "C", "o", "u", "l", "d", " ", "n", "o", "t", " ", "l", "o", "a", "d", ":", " ">> \o img_error \o <<"]">>

\* ---------------------------------------------------------------- the paths
\* os.path.dirname: up to the last '/', trailing slashes dropped unless all slashes
RECURSIVE RStripSlash(_)
RStripSlash(s) == IF s # <<>> /\ s[Len(s)] = "/" THEN RStripSlash(SubSeq(s, 1, Len(s) - 1)) ELSE s

Dirname(path) ==
    LET S == {k \in 1..Len(path) : path[k] = "/"}
        head == IF S = {} THEN <<>>
                ELSE SubSeq(path, 1, CHOOSE k \in S : \A h \in S : h <= k)
    IN IF head # <<>> /\ (\E k \in 1..Len(head) : head[k] # "/") THEN RStripSlash(head) ELSE head

\* the directories os.makedirs(d, exist_ok=True) leaves in place
Ancestors(d) ==
    {SubSeq(d, 1, k) : k \in {j \in 1..Len(d) : j = Len(d) \/ d[j + 1] = "/"}} \ {<<>>}

Timestamp == <<"2", "0", "2", "4", "0", "1", "0", "1", "_", "1", "2", "0", "0", "0", "0">>

DefaultPath == DefaultPathPrefix \o Timestamp \o DocxSuffix

\* the messages of the exceptions
EmptyDirError == <<"[", "E", "r", "r", "n", "o", " ", "2", "]", " ", "N", "o", " ", "s", "u", "c", "h", " ", "f", "i", "l", "e", " ", "o", "r", " ", "d", "i", "r", "e", "c", "t", "o", "r", "y", ":", " ", "'", "'">>
ParseError == <<"p", "a", "r", "s", "e", " ", "e", "r", "r", "o", "r">>
MakeDirsError == <<"[", "E", "r", "r", "n", "o", " ", "1", "3", "]", " ", "P", "e", "r", "m", "i", "s", "s", "i", "o", "n", " ", "d", "e", "n", "i", "e", "d">>
SaveError == <<"[", "E", "r", "r", "n", "o", " ", "2", "8", "]", " ", "N", "o", " ", "s", "p", "a", "c", "e", " ", "l", "e", "f", "t", " ", "o", "n", " ", "d", "e", "v", "i", "c", "e">>
PictureError == <<"u", "n", "r", "e", "c", "o", "g", "n", "i", "z", "e", "d", " ", "i", "m", "a", "g", "e">>
CaptionError == <<"c", "a", "p", "t", "i", "o", "n", " ", "e", "r", "r", "o", "r">>

Success(path) == [status |-> "success", text |-> SuccessPrefix \o path]

Failure(e) == [status |-> "error", text |-> ErrorPrefix \o e]

\* ----------------------------------------------------------------- inputs
AllStrings(alphabet, n) == UNION {[1..k -> alphabet] : k \in 0..n}

InlineLines == AllStrings({"*", Backtick, "a"}, MaxInlineLen)

TableLines == AllStrings({"|", "-", "a", " "}, MaxTableLen)

SampleLines ==
    { <<"#", " ", "a">>, <<"#", "#", " ", "a">>, <<"#", "#", "#", " ", "a">>, <<"#", "#", "#", "#", " ", "a">>, <<"#", "a">>,
      <<"-", " ", "a", "|", "b">>, <<"*", " ", "*", "a", "*">>, <<"-", " ", "*", "*", "a", "*", "*">>, <<"1", ".", " ", "a">>, <<"1", "2", ".", "\t", "a">>, <<"1", ".", "a">>,
      <<"!", "[", "c", "]", "(", "x", ".", "p", "n", "g", ")">>, <<"!", "[", "]", "(", "x", ".", "p", "n", "g", ")">>, <<"!", "[", "c", "]", "(", ".", ".", "/", "c", "h", "a", "r", "t", "s", "/", "x", ".", "p", "n", "g", ")">>,
      <<"!", "[", "c", "]", "(", ".", ".", "/", "c", "h", "a", "r", "t", "s", "/", ".", ".", "/", "c", "h", "a", "r", "t", "s", "/", "y", ".", "p", "n", "g", ")">>, <<"!", "[", "c", "]", "(", "a", "/", ".", ".", "/", "c", "h", "a", "r", "t", "s", "/", "x", ".", "p", "n", "g", ")">>, <<"!", "[", "a", "]", "(", "b", ")", "]", "(", "c", ")">>,
      <<"*", "*", "a", "*", "*", " ", "a", "n", "d", " ", "*", "b", "*">>, <<"*", "a", "*", "*", "b", "*", "*">>, <<"*", "*", "a", Backtick, "b", Backtick, "c", "*", "*">>,
      <<"|", "-", "-", "-", "|", "-", "-", "-", "|">>, <<"|", "-", "-", "-", "|", "t", "e", "x", "t">>, <<" ", "|", " ", "a", " ", "|", " ", "b", " ", "|">>, <<"\t">> }

FlowLines == { <<Backtick, Backtick, Backtick>>, <<"a">>, <<"#", " ", "b">>, <<>>, <<"!", "[", "c", "]", "(", "x", ".", "p", "n", "g", ")">> }

Docs ==
    {<<l>> : l \in InlineLines \cup TableLines \cup SampleLines}
        \cup UNION {[1..n -> FlowLines] : n \in 1..MaxLines}

Contents == {Join(d, <<"\n">>) : d \in Docs}

OutputPaths == {PyNone, <<"r", "e", "p", "o", "r", "t", ".", "d", "o", "c", "x">>, <<"o", "u", "t", "/", "n", "e", "w", "/", "r", ".", "d", "o", "c", "x">>, <<"o", "u", "t", "p", "u", "t", "s", "/", "r", ".", "d", "o", "c", "x">>}

ImageFiles == {{}, { <<"x", ".", "p", "n", "g">>, <<"o", "u", "t", "p", "u", "t", "s", "/", "c", "h", "a", "r", "t", "s", "/", "x", ".", "p", "n", "g">> }}

\* ------------------------------------------------------------------ state
VARIABLES
    markdown_content,   \* argument of _run
    output_path,        \* argument of _run, then the resolved path
    lines,              \* markdown_content.split('\n')
    i,                  \* position of the for loop in lines
    code_block,         \* inside a fenced block
    code_content,       \* the lines buffered since the last opening fence
    doc,                \* the elements added to the Document, in order
    pc,                 \* "start", "loop", "save", "done"
    result,             \* the string _run returns
    dirs,               \* directories of the file system
    files,              \* files of the file system
    saves,              \* number of completed doc.save calls
    injected,           \* the faults raised by the library or the file system
    last                \* the line handled by the last loop iteration and its branch

vars == <<markdown_content, output_path, lines, i, code_block, code_content, doc, pc,
          result, dirs, files, saves, injected, last>>

NoResult == [status |-> "none", text |-> <<>>]

Init ==
    /\ markdown_content \in Contents
    /\ output_path \in OutputPaths
    /\ files \in ImageFiles
    /\ dirs = { <<"o", "u", "t", "p", "u", "t", "s">> }
    /\ lines = <<>>
    /\ i = 0
    /\ code_block = FALSE
    /\ code_content = <<>>
    /\ doc = <<>>
    /\ pc = "start"
    /\ result = NoResult
    /\ saves = 0
    /\ injected = {}
    /\ last = [line |-> <<>>, branch |-> "none", base |-> 0, embed |-> "none"]

\* lines 51-66: default path, Document(), title, split
Start ==
    /\ pc = "start"
    /\ output_path' = IF output_path = PyNone THEN DefaultPath ELSE output_path
    /\ doc' = <<Heading(ReportTitle, 0)>>
    /\ lines' = Split(markdown_content, "\n")
    /\ code_block' = FALSE
    /\ code_content' = <<>>
    /\ i' = 1
    /\ pc' = "loop"
    /\ UNCHANGED <<markdown_content, result, dirs, files, saves, injected, last>>

\* the loop body is about to handle lines[i]
AtLine(branch) == pc = "loop" /\ i <= Len(lines) /\ Classify(lines[i], code_block) = branch

\* the iteration ends: the loop moves to the next line
NextLine(branch, embed) ==
    /\ i' = i + 1
    /\ last' = [line |-> lines[i], branch |-> branch, base |-> Len(doc), embed |-> embed]
    /\ UNCHANGED <<markdown_content, output_path, lines, pc, result, dirs, files, saves>>

\* the except clause of _run
Except(e, fault) ==
    /\ result' = Failure(e)
    /\ pc' = "done"
    /\ injected' = injected \cup fault
    /\ UNCHANGED <<markdown_content, output_path, lines, i, code_block, code_content, doc,
                   dirs, saves, last>>

\* lines 70-73
FenceOpen ==
    /\ AtLine("fence") /\ ~code_block
    /\ code_block' = TRUE
    /\ code_content' = <<>>
    /\ UNCHANGED <<doc, injected>>
    /\ NextLine("fence", "none")

\* lines 74-83
FenceClose ==
    /\ AtLine("fence") /\ code_block
    /\ code_block' = FALSE
    /\ doc' = IF code_content # <<>> THEN Append(doc, CodeBlockPara(code_content)) ELSE doc
    /\ UNCHANGED <<code_content, injected>>
    /\ NextLine("fence", "none")

\* lines 85-87
CodeLine ==
    /\ AtLine("code")
    /\ code_content' = Append(code_content, lines[i])
    /\ UNCHANGED <<code_block, doc, injected>>
    /\ NextLine("code", "none")

\* lines 90-97
HeadingLine ==
    /\ AtLine("heading")
    /\ LET level == HeadingLevel(lines[i])
       IN doc' = Append(doc, Heading(From(lines[i], HeadingCut(level)), level))
    /\ UNCHANGED <<code_block, code_content, injected>>
    /\ NextLine("heading", "none")

\* lines 100-101
BulletLine ==
    /\ AtLine("bullet")
    /\ doc' = Append(doc, AddParagraph(From(lines[i], 2), "List Bullet"))
    /\ UNCHANGED <<code_block, code_content, injected>>
    /\ NextLine("bullet", "none")

\* lines 104-106
NumberedLine ==
    /\ AtLine("numbered")
    /\ doc' = Append(doc, AddParagraph(From(lines[i], NumberedPrefix(lines[i])), "List Number"))
    /\ UNCHANGED <<code_block, code_content, injected>>
    /\ NextLine("numbered", "none")

\* lines 109-117 and 135-136: the resolved path does not exist
ImageMissing ==
    /\ AtLine("image")
    /\ LET alt_text == ImageAlt(lines[i])
           img_path == ResolvePath(ImagePath(lines[i]))
       IN /\ img_path \notin files \cup dirs
          /\ doc' = Append(doc, AddParagraph(NotFoundText(alt_text, img_path), "Normal"))
    /\ UNCHANGED <<code_block, code_content, injected>>
    /\ NextLine("image", "missing")

\* lines 109-132: the resolved path exists and the picture and caption are added
ImageEmbed ==
    /\ AtLine("image")
    /\ LET alt_text == ImageAlt(lines[i])
           img_path == ResolvePath(ImagePath(lines[i]))
       IN /\ img_path \in files \cup dirs
          /\ doc' = doc \o <<PicturePara(img_path)>>
                        \o (IF alt_text # <<>> THEN <<CaptionPara(alt_text)>> ELSE <<>>)
    /\ UNCHANGED <<code_block, code_content, injected>>
    /\ NextLine("image", "embedded")

\* lines 122-125 and 133-134: run.add_picture raises
ImagePictureFail ==
    /\ AtLine("image")
    /\ LET alt_text == ImageAlt(lines[i])
           img_path == ResolvePath(ImagePath(lines[i]))
       IN /\ img_path \in files \cup dirs
          /\ doc' = doc \o <<PictureShell,
                             AddParagraph(CouldNotLoadText(alt_text, PictureError), "Normal")>>
    /\ injected' = injected \cup {"picture"}
    /\ UNCHANGED <<code_block, code_content>>
    /\ NextLine("image", "picture_failed")

\* lines 128-134: the caption paragraph is added and styling it raises
ImageCaptionFail ==
    /\ AtLine("image")
    /\ LET alt_text == ImageAlt(lines[i])
           img_path == ResolvePath(ImagePath(lines[i]))
       IN /\ img_path \in files \cup dirs
          /\ alt_text # <<>>
          /\ doc' = doc \o <<PicturePara(img_path), AddParagraph(alt_text, "Normal"),
                             AddParagraph(CouldNotLoadText(alt_text, CaptionError), "Normal")>>
    /\ injected' = injected \cup {"caption"}
    /\ UNCHANGED <<code_block, code_content>>
    /\ NextLine("image", "caption_failed")

\* lines 139-145
TableLine ==
    /\ AtLine("table")
    /\ doc' = IF IsSeparator(lines[i]) THEN doc ELSE Append(doc, AddParagraph(lines[i], "Normal"))
    /\ UNCHANGED <<code_block, code_content, injected>>
    /\ NextLine("table", "none")

\* lines 148-149
BlankLine ==
    /\ AtLine("blank")
    /\ doc' = Append(doc, AddParagraph(<<>>, "Normal"))
    /\ UNCHANGED <<code_block, code_content, injected>>
    /\ NextLine("blank", "none")

\* lines 152-204
ParagraphLine ==
    /\ AtLine("paragraph")
    /\ doc' = Append(doc, Para("Normal", "none", Runs(lines[i])))
    /\ UNCHANGED <<code_block, code_content, injected>>
    /\ NextLine("paragraph", "none")

\* an exception raised before or inside the loop, outside the image try block
ParseFail ==
    /\ pc = "start" \/ (pc = "loop" /\ i <= Len(lines))
    /\ files' = files
    /\ Except(ParseError, {"parse"})

\* line 207: os.makedirs(os.path.dirname(output_path), exist_ok=True)
MakeDirs ==
    /\ pc = "loop" /\ i > Len(lines)
    /\ IF Dirname(output_path) = <<>>
       THEN /\ files' = files
            /\ Except(EmptyDirError, {})
       ELSE /\ dirs' = dirs \cup Ancestors(Dirname(output_path))
            /\ pc' = "save"
            /\ UNCHANGED <<markdown_content, output_path, lines, i, code_block, code_content,
                           doc, result, files, saves, injected, last>>

\* line 207 fails in the file system
MakeDirsFail ==
    /\ pc = "loop" /\ i > Len(lines)
    /\ Dirname(output_path) # <<>>
    /\ files' = files
    /\ Except(MakeDirsError, {"makedirs"})

\* lines 210-212
Save ==
    /\ pc = "save"
    /\ files' = files \cup {output_path}
    /\ saves' = saves + 1
    /\ result' = Success(output_path)
    /\ pc' = "done"
    /\ UNCHANGED <<markdown_content, output_path, lines, i, code_block, code_content, doc,
                   dirs, injected, last>>

\* SaveFail leaving the file it was writing behind
SaveFailMut ==
    /\ pc = "save"
    /\ files' = files \cup {output_path}
    /\ Except(SaveError, {"save"})

\* line 210 fails in the file system
SaveFail ==
    /\ pc = "save"
    /\ files' = files
    /\ Except(SaveError, {"save"})

Next ==
    \/ Start
    \/ FenceOpen
    \/ FenceClose
    \/ CodeLine
    \/ HeadingLine
    \/ BulletLine
    \/ NumberedLine
    \/ ImageMissing
    \/ ImageEmbed
    \/ ImagePictureFail
    \/ ImageCaptionFail
    \/ TableLine
    \/ BlankLine
    \/ ParagraphLine
    \/ ParseFail
    \/ MakeDirs
    \/ MakeDirsFail
    \/ Save
    \/ SaveFail

Spec == Init /\ [][Next]_vars

\* ================================================================ properties
Fences(ls) == {k \in 1..Len(ls) : IsFence(ls[k])}

\* the loop has handled every line
LoopOver == pc \in {"loop", "save", "done"} /\ i = Len(lines) + 1

\* the loop body runs on lines[i] in this step
LineStep == pc = "loop" /\ i <= Len(lines) /\ i' = i + 1

\* the elements the last loop iteration added to the document
LastBlocks == SubSeq(doc, last.base + 1, Len(doc))

\* ---------------------------------------------------------------------- C1
C1_Returned ==
    /\ pc # "done" => result = NoResult /\ saves = 0
    /\ pc = "done" =>
        \/ /\ result.status = "error"
           /\ StartsWith(result.text, ErrorPrefix)
           /\ saves = 0
           /\ output_path \notin files
        \/ /\ result = Success(output_path)
           /\ saves = 1
           /\ output_path \in files
           /\ i = Len(lines) + 1

C1_WrittenOnce ==
    (files' # files \/ saves' # saves) =>
        /\ saves = 0 /\ saves' = 1
        /\ i = Len(lines) + 1
        /\ files' = files \cup {output_path}
        /\ result' = Success(output_path)

C2_EveryPathSaved ==
    (pc = "done" /\ injected = {}) =>
        /\ result = Success(output_path)
        /\ saves = 1
        /\ output_path \in files
        /\ Ancestors(Dirname(output_path)) \subseteq dirs

\* ---------------------------------------------------------------------- C3
Order == <<"fence", "code", "heading", "bullet", "numbered", "image", "table", "blank", "paragraph">>

Hashes == <<"#", "#", "#", "#">>

\* the line matches the pattern of the block type, taken on its own
Matches(kind, line, inside) ==
    CASE kind = "fence" -> IsFence(line)
      [] kind = "code" -> inside
      [] kind = "heading" -> \E n \in 1..4 : StartsWith(line, SubSeq(Hashes, 1, n) \o <<" ">>)
      [] kind = "bullet" -> IsBullet(line)
      [] kind = "numbered" -> NumberedPrefix(line) > 0
      [] kind = "image" -> IsImage(line)
      [] kind = "table" -> IsTable(line)
      [] kind = "blank" -> IsBlank(line)
      [] kind = "paragraph" -> TRUE

FirstInOrder(line, inside) ==
    Order[CHOOSE k \in 1..Len(Order) :
              /\ Matches(Order[k], line, inside)
              /\ \A h \in 1..(k - 1) : ~Matches(Order[h], line, inside)]

C3_Step ==
    LineStep /\ pc' = "loop" =>
        LET line == lines[i]
        IN /\ last'.branch = FirstInOrder(line, code_block)
           /\ (~IsFence(line) /\ ~code_block /\ IsBullet(line)) =>
                  doc' = Append(doc, AddParagraph(From(line, 2), "List Bullet"))
           /\ (~code_block /\ StartsWith(line, <<"#", "#", "#", "#", " ">>)) =>
                  doc' = Append(doc, Heading(From(line, 5), 4))
           /\ (code_block /\ ~IsFence(line)) => doc' = doc /\ last'.branch = "code"

\* C3: every line gets one block type, the first whose pattern matches in the
\* order fence, inside a code block, heading, bullet, numbered, image, table,
\* blank, paragraph; a '- ' or '* ' line holding '|' or emphasis is a bullet
\* item and a '#### ' line is a level-4 heading.
C3_Precedence == [][C3_Step]_vars

C3_Witness ==
    /\ last.branch = "bullet" /\ last.line = <<"-", " ", "a", "|", "b">>
    /\ LastBlocks = <<AddParagraph(<<"a", "|", "b">>, "List Bullet")>>

\* ---------------------------------------------------------------------- C4
\* the delimiter length of a match: the characters around its group
DelimLen(m) == (m.end - m.start - Len(m.group)) \div 2

\* Python offsets of the delimiter characters of the matches
DelimOffsets(text, ms) ==
    {p \in 0..Len(text) : \E k \in 1..Len(ms) :
        LET m == ms[k].m
        IN (m.start <= p /\ p < m.start + DelimLen(m)) \/ (m.end - DelimLen(m) <= p /\ p < m.end)}

RECURSIVE Without(_, _, _)
Without(text, offsets, k) ==
    IF k > Len(text) THEN <<>>
    ELSE (IF (k - 1) \in offsets THEN <<>> ELSE <<text[k]>>) \o Without(text, offsets, k + 1)

RunTexts(runs) == Concat([k \in 1..Len(runs) |-> runs[k].text])

\* C4: the spans of a paragraph come from matches ordered by start and
\* pairwise disjoint, and their texts concatenated are the line without the
\* delimiter characters of those matches.
C4_SpansReconstructLine ==
    last.branch = "paragraph" =>
        LET text == last.line
            ms == AllMatches(text)
        IN /\ \A k, l \in 1..Len(ms) : k < l => ms[k].m.end <= ms[l].m.start
           /\ Len(LastBlocks) = 1
           /\ RunTexts(LastBlocks[1].runs) = Without(text, DelimOffsets(text, ms), 1)

\* ---------------------------------------------------------------------- C5
Within(m, b) == b.start <= m.start /\ m.end <= b.end

ItalicRuns(runs) == {k \in 1..Len(runs) : runs[k].style = "italic"}

\* C5: no italic span comes from an italic match lying inside a bold match;
\* the line "**a** and *b*" gives bold "a", the plain text between, italic "b".
C5_BoldBeforeItalic ==
    last.branch = "paragraph" =>
        LET text == last.line
            bolds == FindIter(text, BoldDelim, 1)
            italics == FindIter(text, ItalicDelim, 1)
            outside == {k \in 1..Len(italics) :
                           ~ \E b \in 1..Len(bolds) : Within(italics[k], bolds[b])}
            ms == AllMatches(text)
        IN /\ \A k \in 1..Len(ms) : ms[k].type = "italic" =>
                  ~ \E b \in 1..Len(bolds) : Within(ms[k].m, bolds[b])
           /\ Len(LastBlocks) = 1
           /\ Cardinality(ItalicRuns(LastBlocks[1].runs)) <= Cardinality(outside)
           /\ text = <<"*", "*", "a", "*", "*", " ", "a", "n", "d", " ", "*", "b", "*">> =>
                  LastBlocks[1].runs = <<Run(<<"a">>, "bold"), Run(<<" ", "a", "n", "d", " ">>, "plain"),
                                         Run(<<"b">>, "italic")>>

C5_Witness ==
    /\ last.branch = "paragraph" /\ last.line = <<"*", "*", "a", "*", "*", " ", "a", "n", "d", " ", "*", "b", "*">>
    /\ Len(LastBlocks) = 1 /\ Len(LastBlocks[1].runs) = 3

\* ---------------------------------------------------------------------- C6
C6_Step ==
    /\ LineStep /\ pc' = "loop" =>
        /\ (code_block' # code_block) <=> IsFence(lines[i])
        /\ (code_block /\ ~IsFence(lines[i])) => doc' = doc
        /\ (code_block /\ IsFence(lines[i])) =>
              LET open == CHOOSE o \in Fences(lines) :
                              o < i /\ \A h \in Fences(lines) : h < i => h <= o
                  between == SubSeq(lines, open + 1, i - 1)
              IN between # <<>> =>
                     doc' = Append(doc, Para("No Spacing", "none",
                                             <<Run(Join(between, <<"\n">>), "mono")>>))
    /\ ~LineStep => code_block' = code_block \/ pc = "start"

C6_Even == (LoopOver /\ Cardinality(Fences(lines)) % 2 = 0) => ~code_block

\* C6: the flag flips on the lines starting with three backticks and on no
\* others; after an even number of them it is false; a pair of fences with
\* lines between them gives, at the closing fence, one code block holding
\* those lines in order joined by newline, and none of them gives any other
\* block.
C6_FenceToggle == [](C6_Even) /\ [][C6_Step]_vars

C6_Witness ==
    /\ pc = "done" /\ result.status = "success" /\ ~code_block
    /\ lines = << <<Backtick, Backtick, Backtick>>, <<"a">>, <<"#", " ", "b">>, <<Backtick, Backtick, Backtick>> >>
    /\ doc = <<Heading(ReportTitle, 0), Para("No Spacing", "none", <<Run(<<"a", "\n", "#", " ", "b">>, "mono")>>)>>

\* ---------------------------------------------------------------------- C7
\* the line holds nothing but cell bars, dashes and white space
DashOnly(line) == \A k \in 1..Len(line) : line[k] \in {"|", "-"} \cup Whitespace

\* C7: a table-row line gives no block exactly when all its cells are dashes;
\* any other table-row line gives one paragraph with the raw line.
C7_OnlySeparatorsSkipped ==
    last.branch = "table" =>
        /\ LastBlocks = <<>> <=> DashOnly(last.line)
        /\ ~DashOnly(last.line) => LastBlocks = <<AddParagraph(last.line, "Normal")>>

\* ---------------------------------------------------------------------- C8
\* the captured path with a leading '../charts/' replaced and nothing else
LeadingRewrite(path) ==
    IF StartsWith(path, ChartsRel) THEN ChartsOut \o From(path, Len(ChartsRel)) ELSE path

\* C8: the image is looked up at the captured path with only a leading
\* '../charts/' replaced by 'outputs/charts/'; when that path does not exist
\* the line gives the one paragraph '[Image: <alt> - File not found: <path>]'.
C8_LeadingPrefixOnly ==
    last.branch = "image" =>
        LET lookup == LeadingRewrite(ImagePath(last.line))
        IN IF lookup \in files \cup dirs
           THEN last.embed # "missing"
           ELSE /\ last.embed = "missing"
                /\ LastBlocks = <<AddParagraph(NotFoundText(ImageAlt(last.line), lookup), "Normal")>>

\* ---------------------------------------------------------------------- C9
\* C9: when embedding the picture or its caption fails, the line leaves the
\* placeholder paragraph and nothing else in the document, the later lines
\* are handled and the call saves and returns the success message.
C9_PlaceholderOnly ==
    /\ (last.branch = "image" /\ last.embed = "picture_failed") =>
           LastBlocks = <<AddParagraph(CouldNotLoadText(ImageAlt(last.line), PictureError), "Normal")>>
    /\ (last.branch = "image" /\ last.embed = "caption_failed") =>
           LastBlocks = <<AddParagraph(CouldNotLoadText(ImageAlt(last.line), CaptionError), "Normal")>>
    /\ (pc = "done" /\ injected # {} /\ injected \subseteq {"picture", "caption"}) =>
           /\ result = Success(output_path)
           /\ saves = 1
           /\ i = Len(lines) + 1

\* --------------------------------------------------------------------- C10
C10_Unterminated ==
    (pc = "done" /\ injected = {} /\ Cardinality(Fences(lines)) % 2 = 1) =>
        LET open == CHOOSE o \in Fences(lines) : \A h \in Fences(lines) : h <= o
        IN /\ code_block
           /\ code_content = SubSeq(lines, open + 1, Len(lines))
           /\ result = Success(output_path)
           /\ saves = 1

C10_Buffer ==
    /\ (LineStep /\ pc' = "loop" /\ code_block /\ ~IsFence(lines[i])) =>
           doc' = doc /\ code_content' = Append(code_content, lines[i])
    /\ (LineStep /\ pc' = "loop" /\ code_block /\ IsFence(lines[i])) =>
           code_content' = code_content
    /\ (code_content # <<>> /\ code_content' = <<>>) =>
           LineStep /\ ~code_block /\ IsFence(lines[i])

\* C10: when the input ends inside a code block, the lines after the last
\* fence are in the buffer and give no block, and the call still saves and
\* returns the success message; the buffer is emptied by the next opening
\* fence and not by a closing one.
C10_OpenBlockAtEnd == [](C10_Unterminated) /\ [][C10_Buffer]_vars

====
